---- MODULE Spec2Model ----
(***************************************************************************)
(* Model of who_is_logging_things.py: a read-only inspector that reflects  *)
(* over the logging runtime (root logger, Manager.loggerDict, handlers,    *)
(* formatters, filters) and prints reports.                                *)
(*                                                                         *)
(* The logging runtime itself is the external collaborator: its state is   *)
(* the model's state, and the calls a host program makes to configure it   *)
(* (getLogger, setLevel, addHandler, ...) are the environment actions.     *)
(* The inspector's functions are operators over that state; each call of   *)
(* one is an action that stores what it returned or printed in `ret`.      *)
(*                                                                         *)
(* Strings that are compared or sliced character by character (logger      *)
(* names) are sequences of one-character strings; Ord gives the code       *)
(* point Python's string comparison uses.                                  *)
(***************************************************************************)
EXTENDS Integers, Sequences, FiniteSets, TLC

\* ------------------------------------------------------------------ bounds

\* The largest configuration the host program builds (see ConfigSize).
MaxConfig == 3

\* ------------------------------------------------------- program constants

CRITICAL == 50
ERROR == 40
WARNING == 30
INFO == 20
DEBUG == 10
NOTSET == 0

\* --------------------------------------------------------------- universes

Min(a, b) == IF a < b THEN a ELSE b

\* The names the host program passes to getLogger: "a.b", "a", "b", "a.b.c".
Names ==
    { <<"a", ".", "b">>, <<"a">>, <<"b">>, <<"a", ".", "b", ".", "c">> }

\* RootLogger.__init__ names the root logger "root"; it is not in loggerDict.
RootName == <<"r", "o", "o", "t">>

\* Python's None where a logger reference is expected.
None == <<>>

LoggerIds == Names \cup {RootName}

\* Handler objects, numbered in order of construction.
HandlerIds == 1..MaxConfig

\* Levels the host program sets: unset, and two explicit ones.
LevelDomain == {NOTSET, DEBUG, WARNING}

\* Handler classes, by type(handler).__name__.
HandlerClasses ==
    {"NullHandler", "StreamHandler", "FileHandler", "RotatingFileHandler",
     "TimedRotatingFileHandler"}

\* The classes an instance of cls is an instance of (its method resolution
\* order, without object and Filterer).
Mro(cls) ==
    CASE cls = "NullHandler" -> {"NullHandler", "Handler"}
      [] cls = "StreamHandler" -> {"StreamHandler", "Handler"}
      [] cls = "FileHandler" -> {"FileHandler", "StreamHandler", "Handler"}
      [] cls = "RotatingFileHandler" ->
            {"RotatingFileHandler", "BaseRotatingHandler", "FileHandler",
             "StreamHandler", "Handler"}
      [] cls = "TimedRotatingFileHandler" ->
            {"TimedRotatingFileHandler", "BaseRotatingHandler", "FileHandler",
             "StreamHandler", "Handler"}

isinstance(cls, base) == base \in Mro(cls)

\* Names the logging package itself exports: the rotating handlers live in
\* logging.handlers, so hasattr(logging, "RotatingFileHandler") is False.
LoggingModuleAttrs == {"Handler", "NullHandler", "StreamHandler", "FileHandler"}

hasattr_logging(attr) == attr \in LoggingModuleAttrs

\* Formatters a handler may carry: None, or one of two Formatter objects.
NoFormatter == [none |-> TRUE]
PercentFormatter ==
    [none |-> FALSE, _fmt |-> "%(message)s", datefmt |-> "None", _style |-> "PercentStyle"]
\* A formatter object that is not a logging.Formatter and has no _style.
BareFormatter ==
    [none |-> FALSE, _fmt |-> "{message}", datefmt |-> "%H:%M"]
FormatterDomain == {NoFormatter, PercentFormatter, BareFormatter}

\* ------------------------------------------------------------------- state

VARIABLES
    loggerDict,   \* Manager.loggerDict: entries in insertion order
    level,        \* Logger.level
    propagate,    \* Logger.propagate
    disabled,     \* Logger.disabled
    parent,       \* Logger.parent (a logger id, or None)
    handlers,     \* Logger.handlers: sequence of handler ids
    filters,      \* Logger.filters: sequence of filter class names
    hcls,         \* type(handler).__name__, or "unborn" before construction
    hlevel,       \* Handler.level
    hformatter,   \* Handler.formatter
    hfilters,     \* Handler.filters
    op,           \* the inspector function called last, "host" between calls
    arg,          \* its argument (a handler id or a logger id), <<>> if none
    ret           \* what that call returned or printed

envVars ==
    <<loggerDict, level, propagate, disabled, parent, handlers, filters,
      hcls, hlevel, hformatter, hfilters>>

vars == <<envVars, op, arg, ret>>

\* --------------------------------------------------- the logging runtime

DictHas(d, n) == \E i \in 1..Len(d) : d[i].name = n

DictIdx(d, n) == CHOOSE i \in 1..Len(d) : d[i].name = n

LoggerEntry(n) == [name |-> n, cls |-> "Logger", loggerMap |-> {}]

PlaceHolderEntry(n, alogger) ==
    [name |-> n, cls |-> "PlaceHolder", loggerMap |-> {alogger}]

\* The registered names that are real loggers.
RealLoggers ==
    {loggerDict[i].name : i \in {j \in 1..Len(loggerDict) : loggerDict[j].cls = "Logger"}}

\* The largest position <= hi of a "." in s, or 0 (Python's rfind, 1-based).
RFind(s, hi) ==
    LET hits == {j \in 1..Min(hi, Len(s)) : s[j] = "."}
    IN IF hits = {} THEN 0 ELSE CHOOSE j \in hits : \A k \in hits : k <= j

\* s[:n]
Prefix(s, n) == SubSeq(s, 1, Min(n, Len(s)))

\* Manager._fixupParents' loop: p is the 1-based position of the current dot.
RECURSIVE FixupLoop(_, _, _, _)
FixupLoop(d, alogger, p, rv) ==
    IF ~(p > 1 /\ rv = None)
    THEN [dict |-> d, rv |-> rv]
    ELSE LET substr == SubSeq(alogger, 1, p - 1)
             nextp == RFind(alogger, p - 2)
         IN IF ~DictHas(d, substr)
            THEN FixupLoop(Append(d, PlaceHolderEntry(substr, alogger)), alogger, nextp, rv)
            ELSE LET i == DictIdx(d, substr)
                 IN IF d[i].cls = "Logger"
                    THEN FixupLoop(d, alogger, nextp, substr)
                    ELSE FixupLoop([d EXCEPT ![i].loggerMap = @ \cup {alogger}],
                                   alogger, nextp, rv)

\* Manager._fixupParents: the registry with the placeholders added, and the
\* logger's parent.
fixupParents(d, alogger) ==
    LET r == FixupLoop(d, alogger, RFind(alogger, Len(alogger)), None)
    IN [dict |-> r.dict, parent |-> IF r.rv = None THEN RootName ELSE r.rv]

\* Manager._fixupChildren: the placeholder's loggers whose parent is not
\* below the new logger are re-parented to it.
fixupChildren(par, ph, alogger) ==
    [c \in DOMAIN par |->
        IF c \in ph.loggerMap /\ Prefix(par[c], Len(alogger)) # alogger
        THEN alogger
        ELSE par[c]]

\* Logger.getEffectiveLevel: the first non-zero level from the logger up its
\* parent chain, NOTSET when there is none.
RECURSIVE getEffectiveLevel(_)
getEffectiveLevel(logger) ==
    IF logger = None THEN NOTSET
    ELSE IF level[logger] # NOTSET THEN level[logger]
    ELSE getEffectiveLevel(parent[logger])

\* logging.getLevelName, on the registered levels.
getLevelName(n) ==
    CASE n = CRITICAL -> "CRITICAL"
      [] n = ERROR -> "ERROR"
      [] n = WARNING -> "WARNING"
      [] n = INFO -> "INFO"
      [] n = DEBUG -> "DEBUG"
      [] n = NOTSET -> "NOTSET"

\* The size of the configuration: loggers created, handlers attached, and
\* settings that differ from a freshly constructed object's.
DefaultLevel(l) == IF l = RootName THEN WARNING ELSE NOTSET

ConfigSize ==
    Cardinality(RealLoggers)
    + Cardinality({l \in LoggerIds : level[l] # DefaultLevel(l)})
    + Cardinality({l \in LoggerIds : ~propagate[l]})
    + Cardinality({l \in LoggerIds : disabled[l]})
    + Cardinality({l \in LoggerIds : filters[l] # <<>>})
    + Cardinality({lh \in LoggerIds \X HandlerIds :
                      \E i \in 1..Len(handlers[lh[1]]) : handlers[lh[1]][i] = lh[2]})
    + Cardinality({h \in HandlerIds : hlevel[h] # NOTSET})
    + Cardinality({h \in HandlerIds : hformatter[h] # NoFormatter})
    + Cardinality({h \in HandlerIds : hfilters[h] # <<>>})

Init ==
    /\ loggerDict = <<>>
    /\ level = [l \in LoggerIds |-> DefaultLevel(l)]
    /\ propagate = [l \in LoggerIds |-> TRUE]
    /\ disabled = [l \in LoggerIds |-> FALSE]
    /\ parent = [l \in LoggerIds |-> None]
    /\ handlers = [l \in LoggerIds |-> <<>>]
    /\ filters = [l \in LoggerIds |-> <<>>]
    /\ hcls = [h \in HandlerIds |-> "unborn"]
    /\ hlevel = [h \in HandlerIds |-> NOTSET]
    /\ hformatter = [h \in HandlerIds |-> NoFormatter]
    /\ hfilters = [h \in HandlerIds |-> <<>>]
    /\ op = "host"
    /\ arg = <<>>
    /\ ret = <<>>

\* A host-program step: the inspector is not running.
HostStep == op = "host" /\ UNCHANGED <<op, arg, ret>>

\* A host-program step that adds one to the size of the configuration.
Grows == ConfigSize < MaxConfig

\* Manager.getLogger(name) for a name that is not yet a real logger: the
\* registry and the parent references after the call.
ManagerGetLogger(name) ==
    IF DictHas(loggerDict, name)
    THEN LET i == DictIdx(loggerDict, name)
             ph == loggerDict[i]
             d1 == [loggerDict EXCEPT ![i] = LoggerEntry(name)]
             par1 == fixupChildren(parent, ph, name)
             fp == fixupParents(d1, name)
         IN [dict |-> fp.dict, parent |-> [par1 EXCEPT ![name] = fp.parent]]
    ELSE LET fp == fixupParents(Append(loggerDict, LoggerEntry(name)), name)
         IN [dict |-> fp.dict, parent |-> [parent EXCEPT ![name] = fp.parent]]

\* logging.getLogger(name) for a name that is not yet a real logger (for one
\* that is, the call returns it and changes nothing).
getLogger(name) ==
    /\ op = "host"
    /\ Grows
    /\ name \notin RealLoggers
    /\ loggerDict' = ManagerGetLogger(name).dict
    /\ parent' = ManagerGetLogger(name).parent
    /\ UNCHANGED <<level, propagate, disabled, handlers, filters,
                   hcls, hlevel, hformatter, hfilters>>
    /\ HostStep

LiveLoggers == RealLoggers \cup {RootName}

LiveHandlers == {h \in HandlerIds : hcls[h] # "unborn"}

\* logger.setLevel(v)
setLevel(l, v) ==
    /\ op = "host"
    /\ level[l] # v
    /\ level' = [level EXCEPT ![l] = v]
    /\ UNCHANGED <<loggerDict, propagate, disabled, parent, handlers, filters,
                   hcls, hlevel, hformatter, hfilters>>
    /\ HostStep
    /\ ConfigSize' <= MaxConfig

\* logger.propagate = False
setPropagate(l) ==
    /\ op = "host"
    /\ Grows
    /\ propagate[l]
    /\ propagate' = [propagate EXCEPT ![l] = FALSE]
    /\ UNCHANGED <<loggerDict, level, disabled, parent, handlers, filters,
                   hcls, hlevel, hformatter, hfilters>>
    /\ HostStep

\* logger.disabled = True
setDisabled(l) ==
    /\ op = "host"
    /\ Grows
    /\ ~disabled[l]
    /\ disabled' = [disabled EXCEPT ![l] = TRUE]
    /\ UNCHANGED <<loggerDict, level, propagate, parent, handlers, filters,
                   hcls, hlevel, hformatter, hfilters>>
    /\ HostStep

\* logger.addFilter(logging.Filter())
addFilter(l) ==
    /\ op = "host"
    /\ Grows
    /\ filters[l] = <<>>
    /\ filters' = [filters EXCEPT ![l] = <<"Filter">>]
    /\ UNCHANGED <<loggerDict, level, propagate, disabled, parent, handlers,
                   hcls, hlevel, hformatter, hfilters>>
    /\ HostStep

\* logger.addHandler(cls(...)): a newly constructed handler is attached.
addNewHandler(l, cls) ==
    /\ op = "host"
    /\ Grows
    /\ LiveHandlers # HandlerIds
    /\ LET h == Cardinality(LiveHandlers) + 1
       IN /\ hcls' = [hcls EXCEPT ![h] = cls]
          /\ handlers' = [handlers EXCEPT ![l] = Append(@, h)]
    /\ UNCHANGED <<loggerDict, level, propagate, disabled, parent,
                   filters, hlevel, hformatter, hfilters>>
    /\ HostStep

\* logger.addHandler(h) for an existing handler: appended unless already
\* attached to this logger.
addHandler(l, h) ==
    /\ op = "host"
    /\ Grows
    /\ \A i \in 1..Len(handlers[l]) : handlers[l][i] # h
    /\ handlers' = [handlers EXCEPT ![l] = Append(@, h)]
    /\ UNCHANGED <<loggerDict, level, propagate, disabled, parent, filters,
                   hcls, hlevel, hformatter, hfilters>>
    /\ HostStep

\* handler.setLevel(v)
handlerSetLevel(h, v) ==
    /\ op = "host"
    /\ hlevel[h] # v
    /\ hlevel' = [hlevel EXCEPT ![h] = v]
    /\ UNCHANGED <<loggerDict, level, propagate, disabled, parent, handlers,
                   filters, hcls, hformatter, hfilters>>
    /\ HostStep
    /\ ConfigSize' <= MaxConfig

\* handler.setFormatter(f)
setFormatter(h, f) ==
    /\ op = "host"
    /\ Grows
    /\ hformatter[h] # f
    /\ hformatter' = [hformatter EXCEPT ![h] = f]
    /\ UNCHANGED <<loggerDict, level, propagate, disabled, parent, handlers,
                   filters, hcls, hlevel, hfilters>>
    /\ HostStep

\* handler.addFilter(logging.Filter())
handlerAddFilter(h) ==
    /\ op = "host"
    /\ Grows
    /\ hfilters[h] = <<>>
    /\ hfilters' = [hfilters EXCEPT ![h] = <<"Filter">>]
    /\ UNCHANGED <<loggerDict, level, propagate, disabled, parent, handlers,
                   filters, hcls, hlevel, hformatter>>
    /\ HostStep

\* The host program configures logging while the inspector is not running.
HostNext ==
    \/ \E n \in Names : getLogger(n)
    \/ \E l \in LiveLoggers, v \in LevelDomain : setLevel(l, v)
    \/ \E l \in LiveLoggers : setPropagate(l)
    \/ \E l \in LiveLoggers : setDisabled(l)
    \/ \E l \in LiveLoggers : addFilter(l)
    \/ \E l \in LiveLoggers, cls \in HandlerClasses : addNewHandler(l, cls)
    \/ \E l \in LiveLoggers, h \in LiveHandlers : addHandler(l, h)
    \/ \E h \in LiveHandlers, v \in LevelDomain : handlerSetLevel(h, v)
    \/ \E h \in LiveHandlers, f \in FormatterDomain : setFormatter(h, f)
    \/ \E h \in LiveHandlers : handlerAddFilter(h)

\* ------------------------------------------------------ Python built-ins

\* ord(c) for the characters of logger names and handler class names.
Ord(c) ==
    CASE c = "." -> 46
      [] c = "B" -> 66 [] c = "F" -> 70 [] c = "H" -> 72 [] c = "N" -> 78
      [] c = "R" -> 82 [] c = "S" -> 83 [] c = "T" -> 84
      [] c = "a" -> 97 [] c = "b" -> 98 [] c = "c" -> 99 [] c = "d" -> 100
      [] c = "e" -> 101 [] c = "g" -> 103 [] c = "i" -> 105 [] c = "l" -> 108
      [] c = "m" -> 109 [] c = "n" -> 110 [] c = "o" -> 111 [] c = "r" -> 114
      [] c = "t" -> 116 [] c = "u" -> 117

\* str.__lt__: the first differing character decides, a proper prefix is less.
StrLess(s, t) ==
    \E k \in 1..(Len(t)) :
        /\ \A j \in 1..(k - 1) : j <= Len(s) /\ s[j] = t[j]
        /\ Len(s) >= k - 1
        /\ \/ Len(s) = k - 1
           \/ Ord(s[k]) < Ord(t[k])

\* The characters of a handler class name.
Chars(cls) ==
    CASE cls = "NullHandler" -> <<"N", "u", "l", "l", "H", "a", "n", "d", "l", "e", "r">>
      [] cls = "StreamHandler" ->
            <<"S", "t", "r", "e", "a", "m", "H", "a", "n", "d", "l", "e", "r">>
      [] cls = "FileHandler" -> <<"F", "i", "l", "e", "H", "a", "n", "d", "l", "e", "r">>
      [] cls = "RotatingFileHandler" ->
            <<"R", "o", "t", "a", "t", "i", "n", "g", "F", "i", "l", "e",
              "H", "a", "n", "d", "l", "e", "r">>
      [] cls = "TimedRotatingFileHandler" ->
            <<"T", "i", "m", "e", "d", "R", "o", "t", "a", "t", "i", "n", "g",
              "F", "i", "l", "e", "H", "a", "n", "d", "l", "e", "r">>

\* sorted(xs) for a sequence of (key, value) pairs with string keys: the
\* stable ascending sort by key.
RECURSIVE sorted(_)
sorted(xs) ==
    IF xs = <<>> THEN <<>>
    ELSE LET m == CHOOSE i \in 1..Len(xs) :
                    /\ \A j \in 1..Len(xs) : ~StrLess(xs[j][1], xs[i][1])
                    /\ \A j \in 1..(i - 1) : StrLess(xs[i][1], xs[j][1])
             rest == [j \in 1..(Len(xs) - 1) |-> IF j < m THEN xs[j] ELSE xs[j + 1]]
         IN <<xs[m]>> \o sorted(rest)

\* getattr(obj, field, default) on an object given as a record.
getattr(obj, field, default) ==
    IF field \in DOMAIN obj THEN obj[field] ELSE default

\* The concatenation of a sequence of sequences.
RECURSIVE Flatten(_)
Flatten(ss) == IF ss = <<>> THEN <<>> ELSE Head(ss) \o Flatten(Tail(ss))

\* ------------------------------------------------------------ the inspector

\* The instance attributes a handler of class cls carries.
HandlerAttrs(cls) ==
    CASE cls = "NullHandler" -> [name |-> "None"]
      [] cls = "StreamHandler" -> [stream |-> "<stderr>"]
      [] cls = "FileHandler" ->
            [stream |-> "None", baseFilename |-> "/var/log/app.log", mode |-> "a",
             encoding |-> "utf-8"]
      [] cls = "RotatingFileHandler" ->
            [stream |-> "None", baseFilename |-> "/var/log/app.log", mode |-> "a",
             encoding |-> "utf-8", maxBytes |-> 1024, backupCount |-> 3]
      [] cls = "TimedRotatingFileHandler" ->
            [stream |-> "None", baseFilename |-> "/var/log/app.log", mode |-> "a",
             encoding |-> "utf-8", when |-> "H", interval |-> 3600, backupCount |-> 3]

\* FormatterInfo without the check for a missing formatter.
FormatterInfoUnguarded(h) ==
    [none |-> FALSE,
     format |-> getattr(hformatter[h], "_fmt", "N/A"),
     datefmt |-> getattr(hformatter[h], "datefmt", "N/A"),
     style |-> getattr(hformatter[h], "_style", "N/A")]

\* get_handler_info's "formatter" entry.
FormatterInfo(h) ==
    IF hformatter[h] # NoFormatter
    THEN [none |-> FALSE,
          format |-> getattr(hformatter[h], "_fmt", "N/A"),
          datefmt |-> getattr(hformatter[h], "datefmt", "N/A"),
          style |-> getattr(hformatter[h], "_style", "N/A")]
    ELSE NoFormatter

\* HandlerExtras with the stream check an `if` of its own, not an `elif`.
HandlerExtrasNoElif(h) ==
    LET cls == hcls[h]
        attrs == HandlerAttrs(cls)
    IN (IF isinstance(cls, "FileHandler")
        THEN [filename |-> getattr(attrs, "baseFilename", "N/A"),
              mode |-> getattr(attrs, "mode", "N/A"),
              encoding |-> getattr(attrs, "encoding", "N/A")]
        ELSE <<>>)
       @@ (IF isinstance(cls, "StreamHandler")
           THEN [stream |-> IF getattr(attrs, "stream", "None") # "None"
                            THEN attrs.stream ELSE "N/A"]
           ELSE <<>>)

\* get_handler_info's handler-specific entries: the if/elif chain.
HandlerExtras(h) ==
    LET cls == hcls[h]
        attrs == HandlerAttrs(cls)
    IN IF isinstance(cls, "FileHandler")
       THEN [filename |-> getattr(attrs, "baseFilename", "N/A"),
             mode |-> getattr(attrs, "mode", "N/A"),
             encoding |-> getattr(attrs, "encoding", "N/A")]
       ELSE IF isinstance(cls, "StreamHandler")
       THEN [stream |-> IF getattr(attrs, "stream", "None") # "None"
                        THEN attrs.stream ELSE "N/A"]
       ELSE IF hasattr_logging("RotatingFileHandler")
               /\ isinstance(cls, "RotatingFileHandler")
       THEN [filename |-> getattr(attrs, "baseFilename", "N/A"),
             maxBytes |-> getattr(attrs, "maxBytes", "N/A"),
             backupCount |-> getattr(attrs, "backupCount", "N/A")]
       ELSE IF hasattr_logging("TimedRotatingFileHandler")
               /\ isinstance(cls, "TimedRotatingFileHandler")
       THEN [filename |-> getattr(attrs, "baseFilename", "N/A"),
             when |-> getattr(attrs, "when", "N/A"),
             interval |-> getattr(attrs, "interval", "N/A"),
             backupCount |-> getattr(attrs, "backupCount", "N/A")]
       ELSE <<>>

\* get_handler_info(handler): the mapping describing one handler.
get_handler_info(h) ==
    [type |-> hcls[h],
     level |-> getLevelName(hlevel[h]),
     level_num |-> hlevel[h],
     formatter |-> FormatterInfo(h)]
    @@ HandlerExtras(h)
    @@ [filters |-> hfilters[h]]

\* get_logger_info with the effective level taken as the logger's own level
\* or else root's, the ancestors in between skipped.
get_logger_info_skip_ancestors(l) ==
    LET eff == IF level[l] # NOTSET THEN level[l] ELSE level[RootName]
    IN [name |-> l,
        level |-> getLevelName(level[l]),
        level_num |-> level[l],
        effective_level |-> getLevelName(eff),
        effective_level_num |-> eff,
        propagate |-> propagate[l],
        disabled |-> disabled[l],
        handlers |-> [i \in 1..Len(handlers[l]) |-> get_handler_info(handlers[l][i])],
        filters |-> filters[l],
        parent |-> IF parent[l] # None THEN parent[l] ELSE None]

\* get_logger_info(logger): the mapping describing one logger.
get_logger_info(l) ==
    [name |-> l,
     level |-> getLevelName(level[l]),
     level_num |-> level[l],
     effective_level |-> getLevelName(getEffectiveLevel(l)),
     effective_level_num |-> getEffectiveLevel(l),
     propagate |-> propagate[l],
     disabled |-> disabled[l],
     handlers |-> [i \in 1..Len(handlers[l]) |-> get_handler_info(handlers[l][i])],
     filters |-> filters[l],
     parent |-> IF parent[l] # None THEN parent[l] ELSE None]

\* One printed line: what it is, and the values it shows.
Line(label, val) == [label |-> label, val |-> val]

\* A line printed only when the mapping has the key.
LineIfKey(info, key, label) ==
    IF key \in DOMAIN info THEN <<Line(label, <<info[key]>>)>> ELSE <<>>

\* print_handler_details(handler_info): the lines it prints.
print_handler_details(info) ==
    << Line("Type", <<info.type>>), Line("Level", <<info.level, info.level_num>>) >>
    \o LineIfKey(info, "filename", "File")
    \o LineIfKey(info, "stream", "Stream")
    \o LineIfKey(info, "mode", "Mode")
    \o LineIfKey(info, "encoding", "Encoding")
    \o LineIfKey(info, "maxBytes", "Max Bytes")
    \o LineIfKey(info, "backupCount", "Backup Count")
    \o LineIfKey(info, "when", "When")
    \o LineIfKey(info, "interval", "Interval")
    \o (IF info.formatter # NoFormatter
        THEN << Line("Formatter:", <<>>),
                Line("  Format", <<info.formatter.format>>),
                Line("  Date Format", <<info.formatter.datefmt>>),
                Line("  Style", <<info.formatter.style>>) >>
        ELSE << Line("Formatter: None", <<>>) >>)
    \o (IF info.filters # <<>>
        THEN << Line("Filters", info.filters) >>
        ELSE << Line("Filters: None", <<>>) >>)

\* handler.__module__
HandlerModule(cls) ==
    IF hasattr_logging(cls) THEN "logging" ELSE "logging.handlers"

\* show_root_logger(): the lines it prints.
show_root_logger ==
    LET root_info == get_logger_info(RootName)
    IN << Line("ROOT LOGGER", <<>>), Line("=", <<>>),
          Line("Level", <<root_info.level, root_info.level_num>>),
          Line("Effective Level",
               <<root_info.effective_level, root_info.effective_level_num>>),
          Line("Disabled", <<root_info.disabled>>),
          Line("Handlers", <<Len(root_info.handlers)>>) >>
       \o (IF root_info.filters # <<>>
           THEN << Line("Filters", root_info.filters) >>
           ELSE << Line("Filters: None", <<>>) >>)
       \o << Line("", <<>>) >>
       \o (IF root_info.handlers # <<>>
           THEN << Line("ROOT LOGGER HANDLERS", <<>>), Line("-", <<>>) >>
                \o Flatten([i \in 1..Len(root_info.handlers) |->
                       << Line("Handler", <<i>>) >>
                       \o print_handler_details(root_info.handlers[i])
                       \o << Line("Handler ID", <<handlers[RootName][i]>>),
                             Line("Module", <<HandlerModule(hcls[handlers[RootName][i]])>>),
                             Line("", <<>>) >>])
           ELSE << Line("ROOT LOGGER HANDLERS: None", <<>>), Line("", <<>>) >>)

\* The lines show_all_loggers prints for one registry entry.
AllLoggersEntry(e) ==
    IF e.cls = "PlaceHolder"
    THEN << Line("PlaceHolder", <<e.name>>) >>
    ELSE IF e.cls = "Logger"
    THEN LET logger_info == get_logger_info(e.name)
         IN << Line("Logger", <<e.name>>),
               Line("  Level", <<logger_info.level, logger_info.level_num>>),
               Line("  Effective Level",
                    <<logger_info.effective_level, logger_info.effective_level_num>>),
               Line("  Propagate", <<logger_info.propagate>>),
               Line("  Disabled", <<logger_info.disabled>>),
               Line("  Parent",
                    <<IF logger_info.parent # None THEN logger_info.parent ELSE RootName>>),
               Line("  Handlers", <<Len(logger_info.handlers)>>) >>
            \o (IF logger_info.filters # <<>>
                THEN << Line("  Filters", logger_info.filters) >>
                ELSE <<>>)
            \o [i \in 1..Len(logger_info.handlers) |->
                   Line("    Handler",
                        <<i, logger_info.handlers[i].type, logger_info.handlers[i].level>>)]
            \o << Line("", <<>>) >>
    ELSE <<>>

\* logger_dict.items(): (name, object) pairs in the dict's order.
DictItems == [i \in 1..Len(loggerDict) |-> <<loggerDict[i].name, loggerDict[i]>>]

\* The registry's items in the dict's own order, not sorted.
UnsortedLoggers == DictItems

\* sorted(logger_dict.items())
SortedLoggers == sorted(DictItems)

\* show_all_loggers(): the lines it prints.
show_all_loggers ==
    << Line("ALL LOGGERS", <<>>), Line("=", <<>>) >>
    \o (IF loggerDict = <<>>
        THEN << Line("No named loggers configured.", <<>>) >>
        ELSE LET sorted_loggers == SortedLoggers
             IN << Line("Total loggers", <<Len(sorted_loggers)>>), Line("", <<>>) >>
                \o Flatten([i \in 1..Len(sorted_loggers) |->
                               AllLoggersEntry(sorted_loggers[i][2])]))

\* Python's recursion limit, scaled to the model: deeper than any chain of
\* distinct loggers.
RecursionLimit == Cardinality(LoggerIds) + 1

\* The dotted name of a logger's parent by name alone: what precedes the
\* last dot, the empty name when there is none.
ParentByName(n) == SubSeq(n, 1, RFind(n, Len(n)) - 1)

\* ChildrenOf by dotted-name parent, not by the parent reference.
ChildrenOfByNameParent(logger) ==
    sorted(SelectSeq(DictItems,
                     LAMBDA it : /\ it[2].cls = "Logger"
                                 /\ ParentByName(it[1])
                                      = (IF logger = RootName THEN <<>> ELSE logger)))

\* ChildrenOf by name prefix (startswith), not by the parent reference.
ChildrenOfByPrefix(logger) ==
    sorted(SelectSeq(DictItems,
                     LAMBDA it : /\ it[2].cls = "Logger"
                                 /\ LET p == IF logger = RootName THEN <<>> ELSE logger
                                    IN Prefix(it[1], Len(p)) = p))

\* print_logger_tree's children: the real loggers of the registry, in its
\* order, whose parent is this logger; then sorted by name.
ChildrenOf(logger) ==
    sorted(SelectSeq(DictItems,
                     LAMBDA it : it[2].cls = "Logger" /\ parent[it[1]] = logger))

\* print_logger_tree(logger, indent): the lines it prints; a recursion past
\* the limit ends the report with a RecursionError.
RECURSIVE print_logger_tree(_, _)
print_logger_tree(logger, indent) ==
    IF indent > RecursionLimit
    THEN << Line("RecursionError", <<>>) >>
    ELSE LET children == ChildrenOf(logger)
         IN << Line("tree",
                    [indent |-> indent,
                     name |-> IF logger # <<>> THEN logger ELSE RootName,
                     level |-> getEffectiveLevel(logger),
                     handlers_info |->
                         IF handlers[logger] # <<>>
                         THEN <<Len(handlers[logger]), "handlers">>
                         ELSE <<"no handlers">>]) >>
            \o Flatten([i \in 1..Len(children) |->
                           print_logger_tree(children[i][1], indent + 1)])

\* show_logger_hierarchy(): the lines it prints.
show_logger_hierarchy ==
    << Line("LOGGER HIERARCHY", <<>>), Line("=", <<>>) >>
    \o print_logger_tree(RootName, 0)
    \o << Line("", <<>>) >>

\* show_handler_summary's all_handlers: (logger name, handler) pairs, root's
\* first, then those of the registry's real loggers in the registry's order.
AllHandlers ==
    [i \in 1..Len(handlers[RootName]) |-> <<RootName, handlers[RootName][i]>>]
    \o Flatten([k \in 1..Len(loggerDict) |->
                   IF loggerDict[k].cls = "Logger"
                   THEN [i \in 1..Len(handlers[loggerDict[k].name]) |->
                            <<loggerDict[k].name, handlers[loggerDict[k].name][i]>>]
                   ELSE <<>>])

\* show_handler_summary's handler_types: for each class name, in order of
\* first appearance, the pairs of that class; an item is (name's characters,
\* (name, pairs)).
RECURSIVE GroupByType(_, _)
GroupByType(all, acc) ==
    IF all = <<>> THEN acc
    ELSE LET handler_type == hcls[Head(all)[2]]
             acc1 == IF \E k \in 1..Len(acc) : acc[k][2].type = handler_type
                     THEN acc
                     ELSE Append(acc, <<Chars(handler_type),
                                        [type |-> handler_type, members |-> <<>>]>>)
             k == CHOOSE k \in 1..Len(acc1) : acc1[k][2].type = handler_type
         IN GroupByType(Tail(all),
                        [acc1 EXCEPT ![k][2].members = Append(@, Head(all))])

HandlerTypes == GroupByType(AllHandlers, <<>>)

\* The lines show_handler_summary prints for one class.
SummaryGroup(g) ==
    << Line("group", <<g.type, Len(g.members)>>) >>
    \o [i \in 1..Len(g.members) |->
           Line("  member", <<g.members[i][1], getLevelName(hlevel[g.members[i][2]])>>)]
    \o << Line("", <<>>) >>

\* show_handler_summary with the groups in order of first appearance.
show_handler_summary_unsorted ==
    LET groups == HandlerTypes
    IN << Line("HANDLER SUMMARY", <<>>), Line("=", <<>>),
          Line("Total handlers", <<Len(AllHandlers)>>),
          Line("Handler types", <<Len(HandlerTypes)>>),
          Line("", <<>>) >>
       \o Flatten([i \in 1..Len(groups) |-> SummaryGroup(groups[i][2])])

\* show_handler_summary(): the lines it prints.
show_handler_summary ==
    LET groups == sorted(HandlerTypes)
    IN << Line("HANDLER SUMMARY", <<>>), Line("=", <<>>),
          Line("Total handlers", <<Len(AllHandlers)>>),
          Line("Handler types", <<Len(HandlerTypes)>>),
          Line("", <<>>) >>
       \o Flatten([i \in 1..Len(groups) |-> SummaryGroup(groups[i][2])])

\* show_logging_config(): the lines it prints.
show_logging_config ==
    << Line("LOGGING CONFIGURATION", <<>>), Line("=", <<>>),
       Line("Python version", <<"sys.version">>),
       Line("Logging module", <<"logging.__file__">>),
       Line("", <<>>),
       Line("Global Settings:", <<>>),
       Line("  Root logger level", <<getLevelName(level[RootName])>>),
       Line("  Last resort handler", <<"logging.lastResort">>),
       Line("  Capture warnings", <<"logging.captureWarnings.__defaults__">>),
       Line("", <<>>),
       Line("Level Names:", <<>>),
       Line("  level", <<"CRITICAL", CRITICAL>>),
       Line("  level", <<"ERROR", ERROR>>),
       Line("  level", <<"WARNING", WARNING>>),
       Line("  level", <<"INFO", INFO>>),
       Line("  level", <<"DEBUG", DEBUG>>),
       Line("  level", <<"NOTSET", NOTSET>>),
       Line("", <<>>) >>

Banner == << Line("PYTHON LOGGING INSPECTOR", <<>>), Line("=", <<>>), Line("", <<>>) >>

\* main_old(): every report.
main_old ==
    Banner
    \o show_logging_config
    \o show_root_logger
    \o show_all_loggers
    \o show_logger_hierarchy
    \o show_handler_summary
    \o << Line("Inspection complete!", <<>>) >>

\* main with the three commented-out calls restored.
main_with_all_reports == main_old

\* main(): the default entry point.
main ==
    Banner
    \o show_logging_config
    \o show_root_logger
    \o << Line("Inspection complete!", <<>>) >>

\* ------------------------------------------------------- inspector calls

\* A call of an inspector function: it runs to completion, leaves what it
\* returned or printed in ret, and assigns nothing of the logging runtime.
Call(fn, a, result) ==
    /\ op = "host"
    /\ op' = fn
    /\ arg' = a
    /\ ret' = result
    /\ UNCHANGED envVars

CallGetHandlerInfo(h) == Call("get_handler_info", h, get_handler_info(h))

CallPrintHandlerDetails(h) ==
    Call("print_handler_details", h, print_handler_details(get_handler_info(h)))

CallGetLoggerInfo(l) == Call("get_logger_info", l, get_logger_info(l))

CallShowRootLogger == Call("show_root_logger", <<>>, show_root_logger)

\* show_all_loggers looking each key up with logging.getLogger(name), which
\* turns a placeholder into a real logger.
CallShowAllLoggersViaGetLogger ==
    /\ op = "host"
    /\ op' = "show_all_loggers"
    /\ arg' = <<>>
    /\ ret' = show_all_loggers
    /\ LET phs == {i \in 1..Len(loggerDict) : loggerDict[i].cls = "PlaceHolder"}
       IN IF phs = {}
          THEN UNCHANGED <<loggerDict, parent>>
          ELSE LET n == loggerDict[CHOOSE i \in phs : TRUE].name
               IN /\ loggerDict' = ManagerGetLogger(n).dict
                  /\ parent' = ManagerGetLogger(n).parent
    /\ UNCHANGED <<level, propagate, disabled, handlers, filters,
                   hcls, hlevel, hformatter, hfilters>>

CallShowAllLoggers == Call("show_all_loggers", <<>>, show_all_loggers)

CallShowLoggerHierarchy == Call("show_logger_hierarchy", <<>>, show_logger_hierarchy)

CallShowHandlerSummary == Call("show_handler_summary", <<>>, show_handler_summary)

CallShowLoggingConfig == Call("show_logging_config", <<>>, show_logging_config)

CallMain == Call("main", <<>>, main)

\* The call returns to the host program.
Return ==
    /\ op # "host"
    /\ op' = "host"
    /\ arg' = <<>>
    /\ ret' = <<>>
    /\ UNCHANGED envVars

InspectorNext ==
    \/ \E h \in LiveHandlers : CallGetHandlerInfo(h)
    \/ \E h \in LiveHandlers : CallPrintHandlerDetails(h)
    \/ \E l \in LiveLoggers : CallGetLoggerInfo(l)
    \/ CallShowRootLogger
    \/ CallShowAllLoggers
    \/ CallShowLoggerHierarchy
    \/ CallShowHandlerSummary
    \/ CallShowLoggingConfig
    \/ CallMain
    \/ Return

Next == HostNext \/ InspectorNext

Spec == Init /\ [][Next]_vars

\* ------------------------------------------------------------- properties

\* The keys every get_handler_info mapping has, whatever the handler.
CommonKeys == {"type", "level", "level_num", "formatter", "filters"}

\* The handler-specific keys of a mapping.
ExtraKeys(info) == DOMAIN info \ CommonKeys

\* The labels of the printed lines.
Labels(lines) == {lines[i].label : i \in 1..Len(lines)}

\* How many printed lines carry the label.
CountLabel(lines, label) == Cardinality({i \in 1..Len(lines) : lines[i].label = label})

\* The handler-specific keys the handler's concrete class calls for.
ExpectedExtraKeys(cls) ==
    CASE cls = "FileHandler" -> {"filename", "mode", "encoding"}
      [] cls = "RotatingFileHandler" -> {"filename", "maxBytes", "backupCount"}
      [] cls = "TimedRotatingFileHandler" -> {"filename", "when", "interval", "backupCount"}
      [] cls = "StreamHandler" -> {"stream"}
      [] cls = "NullHandler" -> {}

\* C1: the mapping get_handler_info returns has exactly the extra fields of
\* the handler's concrete kind: filename/mode/encoding for a plain file
\* handler, filename/maxBytes/backupCount for a size-rotating one,
\* filename/when/interval/backupCount for a time-rotating one, stream for a
\* generic stream handler, none for an unrecognized kind.
C1_ExtrasMatchConcreteKind ==
    op = "get_handler_info" => ExtraKeys(ret) = ExpectedExtraKeys(hcls[arg])

\* C2: for a handler with no formatter, get_handler_info returns with the
\* formatter entry None, and print_handler_details prints the one line
\* "Formatter: None" and none of the Format / Date Format / Style lines.
C2_NoFormatterIsNone ==
    /\ (op = "get_handler_info" /\ hformatter[arg] = NoFormatter)
          => ("formatter" \in DOMAIN ret /\ ret.formatter = NoFormatter)
    /\ (op = "print_handler_details" /\ hformatter[arg] = NoFormatter)
          => /\ CountLabel(ret, "Formatter: None") = 1
             /\ Labels(ret) \cap {"Formatter:", "  Format", "  Date Format", "  Style"} = {}

\* C2's case: details were printed for a handler without a formatter.
C2_Witness ==
    /\ op = "print_handler_details"
    /\ hformatter[arg] = NoFormatter
    /\ hcls[arg] = "StreamHandler"

\* The key sets the branches of get_handler_info's if/elif chain assign.
BranchKeySets ==
    { {"filename", "mode", "encoding"}, {"stream"},
      {"filename", "maxBytes", "backupCount"},
      {"filename", "when", "interval", "backupCount"}, {} }

\* C9: get_handler_info inspects a handler under one branch only, the first
\* that matches, the file check before the stream check: a file handler gets
\* filename, mode and encoding and no stream, and no mapping has both a
\* filename and a stream.
C9_FirstMatchingBranchOnly ==
    op = "get_handler_info" =>
        /\ ExtraKeys(ret) \in BranchKeySets
        /\ ~({"filename", "stream"} \subseteq DOMAIN ret)
        /\ isinstance(hcls[arg], "FileHandler") =>
               /\ {"filename", "mode", "encoding"} \subseteq DOMAIN ret
               /\ "stream" \notin DOMAIN ret
        /\ (isinstance(hcls[arg], "StreamHandler") /\ ~isinstance(hcls[arg], "FileHandler"))
               => ExtraKeys(ret) = {"stream"}

\* C9's case: a file handler, which is a stream handler too, was inspected.
C9_Witness ==
    /\ op = "get_handler_info"
    /\ hcls[arg] = "FileHandler"
    /\ isinstance(hcls[arg], "StreamHandler")

\* The logger l's k-th ancestor on its parent chain (l itself for k = 0),
\* None past the end of the chain.
RECURSIVE Ancestor(_, _)
Ancestor(l, k) ==
    IF k = 0 \/ l = None THEN l ELSE Ancestor(parent[l], k - 1)

\* No chain of distinct loggers is longer.
ChainBound == Cardinality(LoggerIds)

\* C3: for a logger whose own level is NOTSET, get_logger_info's effective
\* level is the explicit level of the nearest ancestor that has one, on a
\* parent chain that ends at root; for a logger with an explicit level it is
\* that level.
C3_EffectiveLevelIsNearestExplicit ==
    op = "get_logger_info" =>
        /\ level[arg] # NOTSET =>
               /\ ret.effective_level_num = level[arg]
               /\ ret.effective_level = getLevelName(level[arg])
        /\ arg # RootName => \E k \in 1..ChainBound : Ancestor(arg, k) = RootName
        /\ level[arg] = NOTSET =>
               \A k \in 1..ChainBound :
                   (/\ Ancestor(arg, k) # None
                    /\ level[Ancestor(arg, k)] # NOTSET
                    /\ \A j \in 1..(k - 1) : level[Ancestor(arg, j)] = NOTSET)
                   => /\ ret.effective_level_num = level[Ancestor(arg, k)]
                      /\ ret.effective_level = getLevelName(level[Ancestor(arg, k)])

\* C3's case: an unset logger whose parent, not root, has an explicit level
\* that differs from root's.
C3_Witness ==
    /\ op = "get_logger_info"
    /\ level[arg] = NOTSET
    /\ parent[arg] \notin {None, RootName}
    /\ level[parent[arg]] = DEBUG
    /\ level[RootName] = WARNING
    /\ ret.effective_level = "DEBUG"

\* The registry's keys.
DictKeys == {loggerDict[i].name : i \in 1..Len(loggerDict)}

ClsOf(n) == loggerDict[DictIdx(loggerDict, n)].cls

IsEntryLine(ln) == ln.label \in {"PlaceHolder", "Logger"}

\* The lines that open an entry of the all-loggers report.
EntryLines(lines) == SelectSeq(lines, IsEntryLine)

\* The labels of the lines of the entry that opens at line i, the opening
\* line left out.
EntryDetail(lines, i) ==
    LET later == {j \in (i + 1)..Len(lines) : IsEntryLine(lines[j])}
        stop == IF later = {} THEN Len(lines) + 1
                ELSE CHOOSE j \in later : \A k \in later : j <= k
    IN [j \in 1..(stop - i - 1) |-> lines[i + j].label]

\* C4: show_all_loggers prints one entry per registry key, in strictly
\* increasing lexicographic order of the names; a placeholder is printed as
\* its name and a placeholder tag with no detail lines; a real logger is
\* printed with its full summary and one line per handler.
C4_AllLoggersSortedAndTagged ==
    op = "show_all_loggers" =>
        LET E == EntryLines(ret)
        IN /\ Len(E) = Len(loggerDict)
           /\ {E[i].val[1] : i \in 1..Len(E)} = DictKeys
           /\ \A i \in 1..(Len(E) - 1) : StrLess(E[i].val[1], E[i + 1].val[1])
           /\ \A i \in 1..Len(ret) :
                 /\ ret[i].label = "PlaceHolder" =>
                       /\ ClsOf(ret[i].val[1]) = "PlaceHolder"
                       /\ EntryDetail(ret, i) = <<>>
                 /\ ret[i].label = "Logger" =>
                       LET n == ret[i].val[1]
                           d == EntryDetail(ret, i)
                       IN /\ ClsOf(n) = "Logger"
                          /\ Len(d) >= 6
                          /\ SubSeq(d, 1, 6) =
                                <<"  Level", "  Effective Level", "  Propagate",
                                  "  Disabled", "  Parent", "  Handlers">>
                          /\ ret[i + 1].val = <<getLevelName(level[n]), level[n]>>
                          /\ ret[i + 2].val[2] = getEffectiveLevel(n)
                          /\ ret[i + 3].val = <<propagate[n]>>
                          /\ ret[i + 4].val = <<disabled[n]>>
                          /\ ret[i + 5].val = <<parent[n]>>
                          /\ ret[i + 6].val = <<Len(handlers[n])>>
                          /\ Cardinality({j \in 1..Len(d) : d[j] = "    Handler"})
                                = Len(handlers[n])

\* C4's case: "a.b" was created and "a" never was; the report shows "a"
\* tagged as a placeholder, then "a.b" in full.
C4_Witness ==
    /\ op = "show_all_loggers"
    /\ Len(loggerDict) >= 2
    /\ loggerDict[1] = LoggerEntry(<<"a", ".", "b">>)
    /\ loggerDict[2].name = <<"a">> /\ loggerDict[2].cls = "PlaceHolder"
    /\ handlers[<<"a", ".", "b">>] # <<>>
    /\ LET E == EntryLines(ret)
       IN /\ E[1].label = "PlaceHolder" /\ E[1].val[1] = <<"a">>
          /\ E[2].label = "Logger" /\ E[2].val[1] = <<"a", ".", "b">>

IsTreeLine(ln) == ln.label = "tree"

\* The hierarchy report's lines, one per printed logger.
TreeLines(lines) == [i \in 1..Len(SelectSeq(lines, IsTreeLine)) |->
                        SelectSeq(lines, IsTreeLine)[i].val]

\* Line i of the tree is printed as a direct child of line j: one level
\* deeper, with nothing shallower in between.
PrintedUnder(T, i, j) ==
    /\ j < i
    /\ T[j].indent = T[i].indent - 1
    /\ \A k \in (j + 1)..(i - 1) : T[k].indent >= T[i].indent

\* Logger B is printed as a direct child of logger A.
PrintedChild(T, B, A) ==
    \E i \in 1..Len(T), j \in 1..Len(T) :
        T[i].name = B /\ T[j].name = A /\ PrintedUnder(T, i, j)

\* C5: show_logger_hierarchy prints B as a direct child of A exactly when B
\* is a real registered logger whose parent reference is A, whatever the
\* names; a logger whose parent is root is a direct child of root even with
\* a dotted name; the children of a node are printed in ascending name order.
C5_TreeEdgesAreParentReferences ==
    op = "show_logger_hierarchy" =>
        LET T == TreeLines(ret)
        IN /\ \A A \in LoggerIds \cup DictKeys, B \in LoggerIds \cup DictKeys :
                 PrintedChild(T, B, A) <=> (B \in RealLoggers /\ parent[B] = A)
           /\ \A i \in 1..Len(T), j \in 1..Len(T) :
                 (/\ i < j
                  /\ T[i].indent = T[j].indent
                  /\ \A k \in i..j : T[k].indent >= T[i].indent)
                 => StrLess(T[i].name, T[j].name)

\* C5's case: "a.b" hangs off root because "a" is only a placeholder, and
\* its sibling "b" was registered before it.
C5_Witness ==
    /\ op = "show_logger_hierarchy"
    /\ Len(loggerDict) = 3
    /\ loggerDict[1].name = <<"b">>
    /\ ClsOf(<<"a">>) = "PlaceHolder"
    /\ parent[<<"a", ".", "b">>] = RootName
    /\ PrintedChild(TreeLines(ret), <<"a", ".", "b">>, RootName)
    /\ PrintedChild(TreeLines(ret), <<"b">>, RootName)

\* Every real logger's parent chain reaches root.
ChainsReachRoot ==
    \A l \in RealLoggers : \E k \in 1..ChainBound : Ancestor(l, k) = RootName

\* The length of the logger's parent chain to root.
Depth(l) ==
    CHOOSE k \in 0..ChainBound :
        /\ Ancestor(l, k) = RootName
        /\ \A j \in 0..(k - 1) : Ancestor(l, j) # RootName

IsGroupLine(ln) == ln.label = "group"

\* The handler summary's group lines: (class name, instance count).
GroupLines(lines) == [i \in 1..Len(SelectSeq(lines, IsGroupLine)) |->
                         SelectSeq(lines, IsGroupLine)[i].val]

RECURSIVE SumCounts(_)
SumCounts(G) == IF G = <<>> THEN 0 ELSE Head(G)[2] + SumCounts(Tail(G))

\* The attachments of handlers to root and to the real registered loggers.
Attachments ==
    UNION { {<<l, i>> : i \in 1..Len(handlers[l])} : l \in RealLoggers \cup {RootName} }

\* C6: show_handler_summary prints its groups in ascending order of class
\* name, and the groups' instance counts add up to the printed total, which
\* is the number of handlers attached to root plus those attached to every
\* real registered logger, a handler counted once per attachment.
C6_SummaryGroupsSortedAndComplete ==
    op = "show_handler_summary" =>
        LET G == GroupLines(ret)
        IN /\ \A i \in 1..(Len(G) - 1) : StrLess(Chars(G[i][1]), Chars(G[i + 1][1]))
           /\ SumCounts(G) = Cardinality(Attachments)
           /\ ret[3].label = "Total handlers" /\ ret[3].val = <<SumCounts(G)>>
           /\ CountLabel(ret, "  member") = SumCounts(G)

\* C6's case: root and a real logger each carry a handler, of two classes
\* that first appear in the opposite of their sorted order.
C6_Witness ==
    /\ op = "show_handler_summary"
    /\ handlers[RootName] # <<>>
    /\ \E l \in RealLoggers : handlers[l] # <<>>
    /\ Len(HandlerTypes) = 2
    /\ StrLess(HandlerTypes[2][1], HandlerTypes[1][1])

ReportHeaders ==
    {"LOGGING CONFIGURATION", "ROOT LOGGER", "ALL LOGGERS", "LOGGER HIERARCHY",
     "HANDLER SUMMARY"}

C8_InspectorLeavesLoggingUnchanged ==
    [][(op' # "host" \/ op # "host") => envVars' = envVars]_vars

\* C8's case: a report ran over a registry with a placeholder and a handler
\* that has a formatter.
C8_Witness ==
    /\ op = "show_all_loggers"
    /\ \E n \in DictKeys : ClsOf(n) = "PlaceHolder"
    /\ \E l \in RealLoggers : handlers[l] # <<>> /\ hformatter[handlers[l][1]] # NoFormatter
====
